---------------------------- MODULE Spec2Model ----------------------------
(***************************************************************************)
(* A model of the CHIP-8 interpreter of src/main.rs: the Cpu struct, the   *)
(* run loop (fetch_op, decode_op, the timer tick) and the instruction      *)
(* semantics of decode_op, arm by arm.                                     *)
(*                                                                         *)
(* Rust aborts (panics) on an out-of-range index or slice, on              *)
(* unimplemented!() and panic!(), and, when the build checks arithmetic    *)
(* overflow (the debug profile), on an overflowing +, - or +=.  A build    *)
(* without overflow checks (the release profile) wraps instead.  The build *)
(* is the variable overflow_checks, chosen once in Init.  A panic unwinds  *)
(* out of run and main and drops the Cpu, so no field of the aborted       *)
(* operation is ever read again: the model records the abort in status and *)
(* leaves the Cpu as the aborted operation found it.                       *)
(***************************************************************************)
EXTENDS Integers, Sequences, FiniteSets, TLC

\* ------------------------------------------------------------ constants
PC_START == 512
OP_SIZE == 2
RAM_SIZE == 4096
VRAM_WIDTH == 64
VRAM_HEIGHT == 32
VRAM_SIZE == VRAM_HEIGHT * VRAM_WIDTH
NUM_REGISTERS == 16
MAX_STACK == 24
TICK_PERIOD == 10

FONT_SET ==
  << 240, 144, 144, 144, 240,
      32,  96,  32,  32, 112,
     240,  16, 240, 128, 240,
     240,  16, 240,  16, 240,
     144, 144, 240,  16,  16,
     240, 128, 240,  16, 240,
     240, 128, 240, 144, 240,
     240,  16,  32,  64,  64,
     240, 144, 240, 144, 240,
     240, 144, 240,  16, 240,
     240, 144, 240, 144, 144,
     224, 144, 224, 144, 224,
     240, 128, 128, 128, 240,
     224, 144, 144, 144, 224,
     240, 128, 240, 128, 240,
     240, 128, 240, 128, 128 >>

\* The run loop's cycle counter `timer` is an unbounded usize: the model
\* stops fetching after MaxCycles cycles.
MaxCycles == 30

\* --------------------------------------------------- machine arithmetic
U8 == 256
U16 == 65536

RECURSIVE BitAnd(_, _)
BitAnd(a, b) ==
  IF a = 0 \/ b = 0 THEN 0
  ELSE (a % 2) * (b % 2) + 2 * BitAnd(a \div 2, b \div 2)

RECURSIVE BitOr(_, _)
BitOr(a, b) ==
  IF a = 0 THEN b
  ELSE IF b = 0 THEN a
  ELSE (IF a % 2 = 1 \/ b % 2 = 1 THEN 1 ELSE 0) + 2 * BitOr(a \div 2, b \div 2)

RECURSIVE BitXor(_, _)
BitXor(a, b) ==
  IF a = 0 THEN b
  ELSE IF b = 0 THEN a
  ELSE ((a + b) % 2) + 2 * BitXor(a \div 2, b \div 2)

\* `x as i8` of a u8, and `r as u8` of an i8
AsI8(x) == IF x >= 128 THEN x - U8 ELSE x
AsU8(r) == r % U8
\* the i8 a wrapping operation leaves
WrapI8(d) == ((d + 128) % U8) - 128

n2u8(n1, n2) == BitOr(n1 * 16, n2) % U8
n3u16(n1, n2, n3) == BitOr(BitOr(n1 * 256, n2 * 16), n3) % U16

\* ---------------------------------------------------------------- state
VARIABLES
  pc, i, v, delay_timer, sound_timer, stack, sp, ram, vram,  \* struct Cpu
  timer,            \* run's cycle counter
  op,               \* run's fetched instruction, four nibbles
  at,               \* the position of run inside its loop
  status,           \* "running", or "panicked" once the process aborted
  overflow_checks,  \* the build: TRUE when arithmetic overflow panics
  hist,             \* history: the instructions executed last (at most 2)
  ticked            \* history: the cycles (values of timer) that called update_timers

cpu == <<pc, i, v, delay_timer, sound_timer, stack, sp, ram, vram>>
vars == <<pc, i, v, delay_timer, sound_timer, stack, sp, ram, vram,
          timer, op, at, status, overflow_checks, hist, ticked>>

\* ram after Cpu::new()
new_ram == [a \in 0..(RAM_SIZE - 1) |-> IF a < Len(FONT_SET) THEN FONT_SET[a + 1] ELSE 0]

\* copy_from_slice: src[k..] written to dst[at + k - 1 ..], k from 1
RECURSIVE copy_from_slice(_, _, _, _)
copy_from_slice(dst, pos, src, k) ==
  IF k > Len(src) THEN dst
  ELSE copy_from_slice([dst EXCEPT ![pos + k - 1] = src[k]], pos, src, k + 1)

\* ram after load_rom(rom) on a new Cpu; the slice panics when rom does not
\* fit
load_rom(rom) == copy_from_slice(new_ram, PC_START, rom, 1)

\* main: Cpu::new(), load_rom(rom), run() up to its first fetch
InitWith(roms) ==
  \E rom \in roms, oc \in BOOLEAN :
    /\ Len(rom) <= RAM_SIZE - PC_START
    /\ pc = PC_START
    /\ i = 0
    /\ v = [r \in 0..(NUM_REGISTERS - 1) |-> 0]
    /\ delay_timer = 0
    /\ sound_timer = 0
    /\ stack = [s \in 0..(MAX_STACK - 1) |-> 0]
    /\ sp = 0
    /\ ram = load_rom(rom)
    /\ vram = [p \in 0..(VRAM_SIZE - 1) |-> 0]
    /\ timer = 0
    /\ op = <<0, 0, 0, 0>>
    /\ at = "fetch_op"
    /\ status = "running"
    /\ overflow_checks = oc
    /\ hist = << >>
    /\ ticked = {}

\* a panic: the process aborts, the Cpu is dropped
Panic == status' = "panicked" /\ UNCHANGED cpu
Ok == status' = "running"

\* -------------------------------------------------------------- fetch_op
fetch_op ==
  /\ status = "running"
  /\ at = "fetch_op"
  /\ timer < MaxCycles
  /\ IF pc + 1 >= RAM_SIZE
       THEN /\ Panic
            /\ UNCHANGED <<op, at>>
       ELSE LET b1 == ram[pc]
                b2 == ram[pc + 1]
            IN  /\ pc' = pc + OP_SIZE
                /\ op' = << BitAnd(b1, 240) \div 16, BitAnd(b1, 15),
                            BitAnd(b2, 240) \div 16, BitAnd(b2, 15) >>
                /\ at' = "decode_op"
                /\ Ok
                /\ UNCHANGED <<i, v, delay_timer, sound_timer, stack, sp, ram, vram>>
  /\ UNCHANGED <<timer, overflow_checks, hist, ticked>>

\* ------------------------------------------------------------- decode_op
\* Each arm of the match is one definition; vx, vy, n, n1..n3 are the
\* nibbles the pattern binds.

\* (0x0, 0x0, 0xE, 0x0)
Op_00E0 ==
  /\ vram' = [p \in 0..(VRAM_SIZE - 1) |-> 0]
  /\ Ok
  /\ UNCHANGED <<pc, i, v, delay_timer, sound_timer, stack, sp, ram>>

\* Op_00EE reading the slot before decrementing sp
Op_00EE_stale_slot ==
  IF sp = 0
    THEN Panic
    ELSE /\ sp' = sp - 1
         /\ pc' = stack[sp % MAX_STACK]
         /\ Ok
         /\ UNCHANGED <<i, v, delay_timer, sound_timer, stack, ram, vram>>

\* Op_00EE leaving an empty stack empty and the pc where it is
Op_00EE_unchecked ==
  IF sp = 0
    THEN /\ Ok
         /\ UNCHANGED cpu
    ELSE /\ sp' = sp - 1
         /\ pc' = stack[sp - 1]
         /\ Ok
         /\ UNCHANGED <<i, v, delay_timer, sound_timer, stack, ram, vram>>

\* (0x0, 0x0, 0xE, 0xE): `self.sp -= 1` overflows at sp = 0; with overflow
\* checks it panics there, without them sp wraps to usize::MAX and the
\* index `self.stack[self.sp]` panics.
Op_00EE ==
  IF sp = 0
    THEN Panic
    ELSE IF sp - 1 >= MAX_STACK
      THEN Panic
      ELSE /\ sp' = sp - 1
           /\ pc' = stack[sp - 1]
           /\ Ok
           /\ UNCHANGED <<i, v, delay_timer, sound_timer, stack, ram, vram>>

\* (0x0, _, _, _) => unimplemented!("Deprecated op")
Op_0nnn == Panic

\* (0x1, n1, n2, n3)
Op_1nnn(n1, n2, n3) ==
  /\ pc' = n3u16(n1, n2, n3)
  /\ Ok
  /\ UNCHANGED <<i, v, delay_timer, sound_timer, stack, sp, ram, vram>>

\* Op_2nnn writing no further than the last slot instead of panicking
Op_2nnn_clamped(n1, n2, n3) ==
  /\ stack' = [stack EXCEPT ![IF sp >= MAX_STACK THEN MAX_STACK - 1 ELSE sp] = pc]
  /\ sp' = sp + 1
  /\ pc' = n3u16(n1, n2, n3)
  /\ Ok
  /\ UNCHANGED <<i, v, delay_timer, sound_timer, ram, vram>>

\* (0x2, n1, n2, n3): `self.stack[self.sp] = ...` panics at sp = MAX_STACK
Op_2nnn(n1, n2, n3) ==
  IF sp >= MAX_STACK
    THEN Panic
    ELSE /\ stack' = [stack EXCEPT ![sp] = pc]
         /\ sp' = sp + 1
         /\ pc' = n3u16(n1, n2, n3)
         /\ Ok
         /\ UNCHANGED <<i, v, delay_timer, sound_timer, ram, vram>>

\* Skip advancing by one byte instead of one instruction
Skip_one_byte(cond) ==
  /\ pc' = IF cond THEN pc + OP_SIZE - 1 ELSE pc
  /\ Ok
  /\ UNCHANGED <<i, v, delay_timer, sound_timer, stack, sp, ram, vram>>

\* the body of every skip: `self.pc += Cpu::OP_SIZE` when cond holds
\* (pc <= RAM_SIZE after a fetch, so the u16 sum cannot overflow)
Skip(cond) ==
  /\ pc' = IF cond THEN pc + OP_SIZE ELSE pc
  /\ Ok
  /\ UNCHANGED <<i, v, delay_timer, sound_timer, stack, sp, ram, vram>>

\* (0x3, vx, n1, n2)
Op_3xnn(vx, n1, n2) == Skip(v[vx] = n2u8(n1, n2))

\* (0x4, vx, n1, n2)
Op_4xnn(vx, n1, n2) == Skip(v[vx] # n2u8(n1, n2))

\* (0x5, vx, vy, 0x0)
Op_5xy0(vx, vy) == Skip(v[vx] = v[vy])

\* the arms that only write registers
SetV(nv) ==
  /\ v' = nv
  /\ Ok
  /\ UNCHANGED <<pc, i, delay_timer, sound_timer, stack, sp, ram, vram>>

\* (0x6, vx, n1, n2)
Op_6xnn(vx, n1, n2) == SetV([v EXCEPT ![vx] = n2u8(n1, n2)])

\* (0x7, vx, n1, n2): `+=` on u8
Op_7xnn(vx, n1, n2) ==
  LET sum == v[vx] + n2u8(n1, n2)
  IN  IF sum >= U8 /\ overflow_checks
        THEN Panic
        ELSE SetV([v EXCEPT ![vx] = sum % U8])

\* (0x8, vx, vy, 0x0)
Op_8xy0(vx, vy) == SetV([v EXCEPT ![vx] = v[vy]])

\* (0x8, vx, vy, 0x1)
Op_8xy1(vx, vy) == SetV([v EXCEPT ![vx] = BitOr(v[vx], v[vy])])

\* (0x8, vx, vy, 0x2)
Op_8xy2(vx, vy) == SetV([v EXCEPT ![vx] = BitAnd(v[vx], v[vy])])

\* (0x8, vx, vy, 0x3)
Op_8xy3(vx, vy) == SetV([v EXCEPT ![vx] = BitXor(v[vx], v[vy])])

\* Op_8xy4 with the carry taken at 255 instead of above it
Op_8xy4_carry_at_255(vx, vy) ==
  LET res == v[vx] + v[vy]
      v1 == [v EXCEPT ![15] = IF res >= 255 THEN 1 ELSE 0]
  IN  SetV([v1 EXCEPT ![vx] = res % U8])

\* (0x8, vx, vy, 0x4): the sum is taken in u16; v[0xF] is written first,
\* v[vx] second
Op_8xy4(vx, vy) ==
  LET res == v[vx] + v[vy]
      v1 == [v EXCEPT ![15] = IF res > 255 THEN 1 ELSE 0]
  IN  SetV([v1 EXCEPT ![vx] = res % U8])

\* (0x8, vx, vy, 0x5): the difference is taken in i8
Op_8xy5(vx, vy) ==
  LET d == AsI8(v[vx]) - AsI8(v[vy])
      res == WrapI8(d)
      v1 == [v EXCEPT ![15] = IF res < 0 THEN 1 ELSE 0]
  IN  IF (d < -128 \/ d > 127) /\ overflow_checks
        THEN Panic
        ELSE SetV([v1 EXCEPT ![vx] = AsU8(res)])

\* (0x8, vx, _, 0x6): v[vx] is shifted after v[0xF] was written
Op_8xy6(vx) ==
  LET v1 == [v EXCEPT ![15] = BitAnd(v[vx], 1)]
  IN  SetV([v1 EXCEPT ![vx] = v1[vx] \div 2])

\* 8xyE with the flag normalised: `(self.v[vx] & 0x80) >> 7`
Op_8xyE_normalised(vx) ==
  LET v1 == [v EXCEPT ![15] = BitAnd(v[vx], 128) \div 128]
  IN  SetV([v1 EXCEPT ![vx] = (v1[vx] * 2) % U8])

\* (0x8, vx, _, 0xE)
Op_8xyE(vx) ==
  LET v1 == [v EXCEPT ![15] = BitAnd(v[vx], 128)]
  IN  SetV([v1 EXCEPT ![vx] = (v1[vx] * 2) % U8])

\* 9xy0 skipping on equal registers
Op_9xy0_on_equal(vx, vy) == Skip(v[vx] = v[vy])

\* (0x9, vx, vy, 0x0)
Op_9xy0(vx, vy) == Skip(v[vx] # v[vy])

\* (0xA, n1, n2, n3)
Op_Annn(n1, n2, n3) ==
  /\ i' = n3u16(n1, n2, n3)
  /\ Ok
  /\ UNCHANGED <<pc, v, delay_timer, sound_timer, stack, sp, ram, vram>>

\* (0xB, n1, n2, n3): at most 0xFFF + 0xFF, no u16 overflow
Op_Bnnn(n1, n2, n3) ==
  /\ pc' = n3u16(n1, n2, n3) + v[0]
  /\ Ok
  /\ UNCHANGED <<i, v, delay_timer, sound_timer, stack, sp, ram, vram>>

\* (0xC, vx, n1, n2): rand::random::<u8>() is any byte
Op_Cxnn(vx, n1, n2) ==
  \E r \in 0..(U8 - 1) : SetV([v EXCEPT ![vx] = BitAnd(r, n2u8(n1, n2))])

\* The body of `for w in 0..8` for one sprite byte `row` on display row yy,
\* the eight iterations written out: pix and pos as the code computes them,
\* the eight pixels toggled in order.  The eight positions are distinct
\* (8 < VRAM_WIDTH), so each iteration reads a pixel no earlier one wrote.
\* pix without the `& 0x01`
Pix_unmasked(row, w) == row \div (2 ^ (7 - w))

\* pix taken from the low end of the sprite byte: `sprite[h] >> w`
Pix_lsb_first(row, w) == BitAnd(row \div (2 ^ w), 1)

Pix(row, w) == BitAnd(row \div (2 ^ (7 - w)), 1)
Pos(x, w, yy) == ((x + w) % VRAM_WIDTH) + yy * VRAM_WIDTH
\* `self.vram[pos] & pix`
Hit(vr, row, x, w, yy) == BitAnd(vr[Pos(x, w, yy)], Pix(row, w))

\* DrawRow setting pixels (OR) instead of toggling them
DrawRow_or(row, x, yy, vr, vf) ==
  [vram |-> [vr EXCEPT ![Pos(x, 0, yy)] = BitOr(@, Pix(row, 0)),
                       ![Pos(x, 1, yy)] = BitOr(@, Pix(row, 1)),
                       ![Pos(x, 2, yy)] = BitOr(@, Pix(row, 2)),
                       ![Pos(x, 3, yy)] = BitOr(@, Pix(row, 3)),
                       ![Pos(x, 4, yy)] = BitOr(@, Pix(row, 4)),
                       ![Pos(x, 5, yy)] = BitOr(@, Pix(row, 5)),
                       ![Pos(x, 6, yy)] = BitOr(@, Pix(row, 6)),
                       ![Pos(x, 7, yy)] = BitOr(@, Pix(row, 7))],
   vf |-> BitOr(BitOr(BitOr(BitOr(BitOr(BitOr(BitOr(BitOr(vf,
            Hit(vr, row, x, 0, yy)), Hit(vr, row, x, 1, yy)), Hit(vr, row, x, 2, yy)),
            Hit(vr, row, x, 3, yy)), Hit(vr, row, x, 4, yy)), Hit(vr, row, x, 5, yy)),
            Hit(vr, row, x, 6, yy)), Hit(vr, row, x, 7, yy))]

\* DrawRow dropping the pixels that fall off the right edge
DrawRow_clipped(row, x, yy, vr, vf) ==
  [vram |-> [p \in DOMAIN vr |->
               IF /\ p \div VRAM_WIDTH = yy
                  /\ (p % VRAM_WIDTH) - (x % VRAM_WIDTH) \in 0..7
                 THEN BitXor(vr[p], Pix(row, (p % VRAM_WIDTH) - (x % VRAM_WIDTH)))
                 ELSE vr[p]],
   vf |-> IF \E w \in 0..7 : (x % VRAM_WIDTH) + w < VRAM_WIDTH /\ Hit(vr, row, x, w, yy) # 0
            THEN BitOr(vf, 1) ELSE vf]

DrawRow(row, x, yy, vr, vf) ==
  [vram |-> [vr EXCEPT ![Pos(x, 0, yy)] = BitXor(@, Pix(row, 0)),
                       ![Pos(x, 1, yy)] = BitXor(@, Pix(row, 1)),
                       ![Pos(x, 2, yy)] = BitXor(@, Pix(row, 2)),
                       ![Pos(x, 3, yy)] = BitXor(@, Pix(row, 3)),
                       ![Pos(x, 4, yy)] = BitXor(@, Pix(row, 4)),
                       ![Pos(x, 5, yy)] = BitXor(@, Pix(row, 5)),
                       ![Pos(x, 6, yy)] = BitXor(@, Pix(row, 6)),
                       ![Pos(x, 7, yy)] = BitXor(@, Pix(row, 7))],
   vf |-> BitOr(BitOr(BitOr(BitOr(BitOr(BitOr(BitOr(BitOr(vf,
            Hit(vr, row, x, 0, yy)), Hit(vr, row, x, 1, yy)), Hit(vr, row, x, 2, yy)),
            Hit(vr, row, x, 3, yy)), Hit(vr, row, x, 4, yy)), Hit(vr, row, x, 5, yy)),
            Hit(vr, row, x, 6, yy)), Hit(vr, row, x, 7, yy))]

\* (0xD, vx, vy, n): `for h in 0..sprite.len()`; d is the display buffer and
\* v[0xF] so far
RECURSIVE DrawLoop(_, _, _, _, _)
DrawLoop(sprite, x, y, h, d) ==
  IF h >= Len(sprite)
    THEN d
    ELSE DrawLoop(sprite, x, y, h + 1,
                  DrawRow(sprite[h + 1], x, (y + h) % VRAM_HEIGHT, d.vram, d.vf))

\* `&self.ram[self.i as usize..][..n]`, where it does not panic
Sprite(mem, idx, n) == [h \in 1..n |-> mem[idx + h - 1]]

\* Dxyn clearing register 15 before it reads the coordinates
Op_Dxyn_clear_first(vx, vy, n) ==
  IF i > RAM_SIZE \/ n > RAM_SIZE - i
    THEN Panic
    ELSE LET v0 == [v EXCEPT ![15] = 0]
             d == DrawLoop(Sprite(ram, i, n), v0[vx], v0[vy], 0, [vram |-> vram, vf |-> 0])
         IN  /\ vram' = d.vram
             /\ v' = [v EXCEPT ![15] = d.vf]
             /\ Ok
             /\ UNCHANGED <<pc, i, delay_timer, sound_timer, stack, sp, ram>>

Op_Dxyn(vx, vy, n) ==
  IF i > RAM_SIZE \/ n > RAM_SIZE - i
    THEN Panic
    ELSE LET d == DrawLoop(Sprite(ram, i, n), v[vx], v[vy], 0, [vram |-> vram, vf |-> 0])
         IN  /\ vram' = d.vram
             /\ v' = [v EXCEPT ![15] = d.vf]
             /\ Ok
             /\ UNCHANGED <<pc, i, delay_timer, sound_timer, stack, sp, ram>>

\* (0xE, vx, 0x9, 0xE): the body is commented out
Op_Ex9E(vx) ==
  /\ Ok
  /\ UNCHANGED cpu

\* (0xE, vx, 0xA, 0x1) without the `self.pc += Cpu::OP_SIZE`
Op_ExA1_no_skip(vx) ==
  /\ Ok
  /\ UNCHANGED cpu

\* (0xE, vx, 0xA, 0x1): only `self.pc += Cpu::OP_SIZE` is left
Op_ExA1(vx) == Skip(TRUE)

\* (0xF, vx, 0x0, 0x7)
Op_Fx07(vx) == SetV([v EXCEPT ![vx] = delay_timer])

\* (0xF, vx, 0x1, 0x5)
Op_Fx15(vx) ==
  /\ delay_timer' = v[vx]
  /\ Ok
  /\ UNCHANGED <<pc, i, v, sound_timer, stack, sp, ram, vram>>

\* (0xF, vx, 0x1, 0x8)
Op_Fx18(vx) ==
  /\ sound_timer' = v[vx]
  /\ Ok
  /\ UNCHANGED <<pc, i, v, delay_timer, stack, sp, ram, vram>>

\* (0xF, vx, 0x1, 0xE): `+=` on u16
Op_Fx1E(vx) ==
  LET sum == i + v[vx]
  IN  IF sum >= U16 /\ overflow_checks
        THEN Panic
        ELSE /\ i' = sum % U16
             /\ Ok
             /\ UNCHANGED <<pc, v, delay_timer, sound_timer, stack, sp, ram, vram>>

\* (0xF, n, 0x2, 0x9)
Op_Fn29(n) ==
  /\ i' = n * 5
  /\ Ok
  /\ UNCHANGED <<pc, v, delay_timer, sound_timer, stack, sp, ram, vram>>

\* (0xF, vx, 0x3, 0x3): three indexed stores; the first index out of range
\* panics (i + 1 and i + 2 are u16 sums, which overflow only for an i that
\* the first store has already panicked on)
Op_Fx33(vx) ==
  IF i + 2 >= RAM_SIZE
    THEN Panic
    ELSE /\ ram' = [ram EXCEPT ![i] = v[vx] \div 100,
                               ![i + 1] = (v[vx] \div 10) % 10,
                               ![i + 2] = v[vx] % 10]
         /\ Ok
         /\ UNCHANGED <<pc, i, v, delay_timer, sound_timer, stack, sp, vram>>

\* (0xF, vx, 0x5, 0x5): `self.ram[i..][0..=vx]`
Op_Fx55(vx) ==
  IF i > RAM_SIZE \/ vx + 1 > RAM_SIZE - i
    THEN Panic
    ELSE /\ ram' = [a \in 0..(RAM_SIZE - 1) |->
                      IF a >= i /\ a <= i + vx THEN v[a - i] ELSE ram[a]]
         /\ Ok
         /\ UNCHANGED <<pc, i, v, delay_timer, sound_timer, stack, sp, vram>>

\* Fx65 reading round the end of memory instead of panicking
Op_Fx65_wrapping(vx) ==
  SetV([r \in 0..(NUM_REGISTERS - 1) |-> IF r <= vx THEN ram[(i + r) % RAM_SIZE] ELSE v[r]])

\* (0xF, vx, 0x6, 0x5)
Op_Fx65(vx) ==
  IF i > RAM_SIZE \/ vx + 1 > RAM_SIZE - i
    THEN Panic
    ELSE SetV([r \in 0..(NUM_REGISTERS - 1) |-> IF r <= vx THEN ram[i + r] ELSE v[r]])

\* the fallback arm doing nothing
Op_invalid_no_op ==
  /\ Ok
  /\ UNCHANGED cpu

\* _ => panic!("Invalid op: {:X?}", op)
Op_invalid == Panic

\* what hist keeps of an instruction: the Cpu as decode_op found it
Executed ==
  [op |-> op, pc |-> pc, sp |-> sp, i |-> i, v |-> v, vram |-> vram,
   delay_timer |-> delay_timer,
   sprite |-> IF op[1] = 13 /\ i + op[4] <= RAM_SIZE
                THEN Sprite(ram, i, op[4]) ELSE << >>]

Last2(s) == IF Len(s) > 2 THEN Tail(s) ELSE s

decode_op ==
  /\ status = "running"
  /\ at = "decode_op"
  /\ LET n0 == op[1]
         n1 == op[2]
         n2 == op[3]
         n3 == op[4]
     IN  CASE n0 = 0 /\ n1 = 0 /\ n2 = 14 /\ n3 = 0 -> Op_00E0
           [] n0 = 0 /\ n1 = 0 /\ n2 = 14 /\ n3 = 14 -> Op_00EE
           [] n0 = 0 /\ ~(n1 = 0 /\ n2 = 14 /\ n3 \in {0, 14}) -> Op_0nnn
           [] n0 = 1 -> Op_1nnn(n1, n2, n3)
           [] n0 = 2 -> Op_2nnn(n1, n2, n3)
           [] n0 = 3 -> Op_3xnn(n1, n2, n3)
           [] n0 = 4 -> Op_4xnn(n1, n2, n3)
           [] n0 = 5 /\ n3 = 0 -> Op_5xy0(n1, n2)
           [] n0 = 6 -> Op_6xnn(n1, n2, n3)
           [] n0 = 7 -> Op_7xnn(n1, n2, n3)
           [] n0 = 8 /\ n3 = 0 -> Op_8xy0(n1, n2)
           [] n0 = 8 /\ n3 = 1 -> Op_8xy1(n1, n2)
           [] n0 = 8 /\ n3 = 2 -> Op_8xy2(n1, n2)
           [] n0 = 8 /\ n3 = 3 -> Op_8xy3(n1, n2)
           [] n0 = 8 /\ n3 = 4 -> Op_8xy4(n1, n2)
           [] n0 = 8 /\ n3 = 5 -> Op_8xy5(n1, n2)
           [] n0 = 8 /\ n3 = 6 -> Op_8xy6(n1)
           [] n0 = 8 /\ n3 = 14 -> Op_8xyE(n1)
           [] n0 = 9 /\ n3 = 0 -> Op_9xy0(n1, n2)
           [] n0 = 10 -> Op_Annn(n1, n2, n3)
           [] n0 = 11 -> Op_Bnnn(n1, n2, n3)
           [] n0 = 12 -> Op_Cxnn(n1, n2, n3)
           [] n0 = 13 -> Op_Dxyn(n1, n2, n3)
           [] n0 = 14 /\ n2 = 9 /\ n3 = 14 -> Op_Ex9E(n1)
           [] n0 = 14 /\ n2 = 10 /\ n3 = 1 -> Op_ExA1(n1)
           [] n0 = 15 /\ n2 = 0 /\ n3 = 7 -> Op_Fx07(n1)
           [] n0 = 15 /\ n2 = 1 /\ n3 = 5 -> Op_Fx15(n1)
           [] n0 = 15 /\ n2 = 1 /\ n3 = 8 -> Op_Fx18(n1)
           [] n0 = 15 /\ n2 = 1 /\ n3 = 14 -> Op_Fx1E(n1)
           [] n0 = 15 /\ n2 = 2 /\ n3 = 9 -> Op_Fn29(n1)
           [] n0 = 15 /\ n2 = 3 /\ n3 = 3 -> Op_Fx33(n1)
           [] n0 = 15 /\ n2 = 5 /\ n3 = 5 -> Op_Fx55(n1)
           [] n0 = 15 /\ n2 = 6 /\ n3 = 5 -> Op_Fx65(n1)
           [] OTHER -> Op_invalid
  /\ at' = IF status' = "running" THEN "tick" ELSE at
  /\ hist' = IF status' = "running" THEN Last2(Append(hist, Executed)) ELSE hist
  /\ UNCHANGED <<timer, op, overflow_checks, ticked>>

\* ---------------------------------------------------------- update_timers
\* update_timers decrementing without the `> 0` tests (a wrapping u8)
update_timers_wrapping ==
  /\ delay_timer' = (delay_timer - 1) % U8
  /\ sound_timer' = (sound_timer - 1) % U8

update_timers ==
  /\ delay_timer' = IF delay_timer > 0 THEN delay_timer - 1 ELSE delay_timer
  /\ sound_timer' = IF sound_timer > 0 THEN sound_timer - 1 ELSE sound_timer

\* run calling update_timers in every cycle
tick_every_cycle ==
  /\ status = "running"
  /\ at = "tick"
  /\ update_timers
  /\ ticked' = ticked \cup {timer}
  /\ timer' = timer + 1
  /\ at' = "fetch_op"
  /\ UNCHANGED <<pc, i, v, stack, sp, ram, vram, op, status, overflow_checks, hist>>

\* run testing the counter after incrementing it: the first call of
\* update_timers in the tenth cycle
tick_late ==
  /\ status = "running"
  /\ at = "tick"
  /\ IF (timer + 1) % TICK_PERIOD = 0
       THEN update_timers /\ ticked' = ticked \cup {timer}
       ELSE UNCHANGED <<delay_timer, sound_timer, ticked>>
  /\ timer' = timer + 1
  /\ at' = "fetch_op"
  /\ UNCHANGED <<pc, i, v, stack, sp, ram, vram, op, status, overflow_checks, hist>>

\* run, after decode_op: `if timer % 10 == 0 { self.update_timers(); }
\* timer += 1;` and the frame written to the terminal, which changes nothing
tick ==
  /\ status = "running"
  /\ at = "tick"
  /\ IF timer % TICK_PERIOD = 0
       THEN update_timers /\ ticked' = ticked \cup {timer}
       ELSE UNCHANGED <<delay_timer, sound_timer, ticked>>
  /\ timer' = timer + 1
  /\ at' = "fetch_op"
  /\ UNCHANGED <<pc, i, v, stack, sp, ram, vram, op, status, overflow_checks, hist>>

\* the loop of run
Next == fetch_op \/ decode_op \/ tick

\* ------------------------------------------------------- program images
\* The argument of load_rom is any byte sequence.  The images below are the
\* ones the properties are checked on; Ins is one instruction, high byte
\* first, and NN/NNN spell an immediate as nibbles.
Ins(n0, n1, n2, n3) == <<n0 * 16 + n1, n2 * 16 + n3>>
InsNN(n0, x, nn) == Ins(n0, x, nn \div 16, nn % 16)
InsNNN(n0, nnn) == Ins(n0, nnn \div 256, (nnn \div 16) % 16, nnn % 16)

\* register values near 0, near the sign change and near 255
ByteEdge == 2
Bytes == (0..ByteEdge) \cup ((128 - ByteEdge)..(128 + ByteEdge)) \cup ((255 - ByteEdge)..255)

\* register pairs: distinct, equal, and with the flag register on each side
RegPairs == {<<1, 2>>, <<3, 3>>, <<0, 15>>, <<15, 0>>, <<15, 15>>}

\* 6xaa 6ybb 8xyK: load two registers, then one 8xy_ instruction
AluRoms(k) ==
  { InsNN(6, r[1], a) \o InsNN(6, r[2], b) \o Ins(8, r[1], r[2], k) :
      r \in RegPairs, a \in Bytes, b \in Bytes }

\* every program of ProgLen instructions over an alphabet of instructions
ProgLen == 3
RECURSIVE Programs(_, _)
Programs(alphabet, len) ==
  IF len = 0 THEN { << >> }
  ELSE { a \o rest : a \in alphabet, rest \in Programs(alphabet, len - 1) }

\* calls to each of the first three instructions, return, a jump and a load
StackAlphabet ==
  { InsNNN(2, 512), InsNNN(2, 514), InsNNN(2, 516), Ins(0, 0, 14, 14),
    InsNNN(1, 516), InsNN(6, 0, 5) }
StackRoms == Programs(StackAlphabet, ProgLen)

\* 6xXX 6yYY Dxy5 A20C Dxyn Dxyn and 15 bytes of sprite data at 0x20C: the
\* glyph "0" of the font (i = 0) drawn at (XX, YY), then the first n rows of
\* the sprite drawn twice over it
SpriteData == <<255, 129, 170, 85, 1, 128, 60, 0, 255, 24, 102, 219, 7, 224, 153>>
DrawXs == {0, 5, 60, 255}
DrawYs == {0, 30, 255}
DrawRegs == {<<0, 1>>, <<15, 1>>, <<2, 15>>}
DrawRoms ==
  { InsNN(6, r[1], x) \o InsNN(6, r[2], y) \o Ins(13, r[1], r[2], 5)
      \o InsNNN(10, PC_START + 12) \o Ins(13, r[1], r[2], n) \o Ins(13, r[1], r[2], n)
      \o SpriteData :
      r \in DrawRegs, x \in DrawXs, y \in DrawYs, n \in 0..15 }

\* jumps and calls to even and to odd addresses, Bnnn with V0 = 0 or 1, a
\* return, a skip that is taken
JumpAlphabet ==
  { InsNNN(1, 516), InsNNN(1, 515), InsNNN(2, 516), InsNNN(2, 517),
    Ins(0, 0, 14, 14), InsNN(6, 0, 1), InsNNN(11, 515), InsNN(3, 1, 0) }
JumpRoms == Programs(JumpAlphabet, ProgLen)

\* one instruction word.  For the first nibbles whose patterns fix later
\* nibbles (0, 5, 8, 9, E, F): every third and fourth nibble, and for 0 and
\* 8 also a nonzero second nibble; for the others, whose every word is an
\* instruction: two words each
PatternFirst == {0, 5, 8, 9, 14, 15}
WordRoms ==
  { Ins(n0, 0, n2, n3) : n0 \in PatternFirst, n2 \in 0..15, n3 \in 0..15 }
    \cup { Ins(n0, 1, n2, n3) : n0 \in {0, 8}, n2 \in {0, 2, 14}, n3 \in 0..15 }
    \cup { Ins(n0, 0, n, n) : n0 \in (0..15) \ PatternFirst, n \in {0, 15} }
    \cup { Ins(15, 15, 15, 15) }

\* 60kk F015 61jj F118 1208: both timers set, then a jump to itself
TimerValues == {0, 1, 2, 255}
TimerRoms ==
  { InsNN(6, 0, k) \o Ins(15, 0, 1, 5) \o InsNN(6, 1, j) \o Ins(15, 1, 1, 8)
      \o InsNNN(1, PC_START + 8) : k \in TimerValues, j \in TimerValues }

\* Annn 60xx D01n 70dx c 1204: a sprite of n rows, out of the font (i = 0) or
\* out of the image's own bytes (i = 0x200), drawn at (xx, V1), then in a
\* loop V0 moved by dx, c, and the sprite drawn again; c clears the display
\* or moves V1 by 3
ScreenRoms ==
  { InsNNN(10, a) \o InsNN(6, 0, x) \o Ins(13, 0, 1, n) \o InsNN(7, 0, dx) \o c
      \o InsNNN(1, PC_START + 4) :
      a \in {0, PC_START}, x \in {0, 61}, n \in {5, 15}, dx \in {1, 7},
      c \in {Ins(0, 0, 14, 0), InsNN(7, 1, 3)} }

\* Annn D005 at the origin of an empty display: the sprite is the image's
\* own first five bytes (A200 D005), or five bytes 0xFF that follow the two
\* instructions (A204 D005 FF FF FF FF FF)
BlockOwnBytes == InsNNN(10, PC_START) \o Ins(13, 0, 0, 5)
BlockSolid == InsNNN(10, PC_START + 4) \o Ins(13, 0, 0, 5) \o <<255, 255, 255, 255, 255>>
BlockRoms == {BlockOwnBytes, BlockSolid}

\* 6xkk Ex9E and 6xkk ExA1: a register loaded, then a key-state skip on it
KeyRegs == {0, 7, 15}
KeyRoms ==
  { InsNN(6, x, k) \o Ins(14, x, t[1], t[2]) :
      x \in KeyRegs, k \in Bytes, t \in {<<9, 14>>, <<10, 1>>} }

\* 6xaa 7xnn: a register loaded, then an immediate added to it
AddImmRegs == {0, 7, 15}
AddImmRoms ==
  { InsNN(6, x, a) \o InsNN(7, x, nn) : x \in AddImmRegs, a \in Bytes, nn \in Bytes }

\* 6xaa 6ybb and one skip instruction on registers x, y or on register x and
\* the immediate bb
SkipValues == {0, 1, 255}
SkipRegs == {<<1, 2>>, <<3, 3>>, <<0, 15>>}
SkipOps(x, y, b) ==
  { InsNN(3, x, b), InsNN(4, x, b), Ins(5, x, y, 0), Ins(9, x, y, 0),
    Ins(14, x, 9, 14), Ins(14, x, 10, 1) }
SkipRoms ==
  UNION { { InsNN(6, r[1], a) \o InsNN(6, r[2], b) \o s : s \in SkipOps(r[1], r[2], b) } :
            r \in SkipRegs, a \in SkipValues, b \in SkipValues }

\* Annn 60kk F01E and one instruction that reads or writes memory at the
\* index nnn + kk, near the end of memory
EdgeIndexes == {4080, 4093, 4094, 4095}
EdgeSteps == {0, 1, 2, 3}
MemOps ==
  { Ins(13, 0, 0, 0), Ins(13, 0, 0, 1), Ins(13, 0, 0, 2), Ins(13, 0, 0, 15),
    Ins(15, 0, 3, 3), Ins(15, 0, 5, 5), Ins(15, 3, 5, 5), Ins(15, 0, 6, 5),
    Ins(15, 3, 6, 5) }
MemRoms ==
  { InsNNN(10, a) \o InsNN(6, 0, k) \o Ins(15, 0, 1, 14) \o m :
      a \in EdgeIndexes, k \in EdgeSteps, m \in MemOps }

\* 60kk and a jump, 1nnn or Bnnn, to the last addresses of memory
EdgeTargets == {4093, 4094, 4095}
EdgeJumpRoms ==
  { InsNN(6, 0, k) \o InsNNN(j, t) : k \in EdgeSteps, j \in {1, 11}, t \in EdgeTargets }

\* 60kk, up to two more loads, then the loop Fx15 Fx07 1nnn: the delay timer
\* set from V0 and read into V1 every third cycle, the loads shifting which
\* cycles those are
TickPads == { << >>, InsNN(6, 2, 0), InsNN(6, 2, 0) \o InsNN(6, 2, 0) }
TickRoms ==
  { InsNN(6, 0, k) \o pad \o Ins(15, 0, 1, 5) \o Ins(15, 1, 0, 7)
      \o InsNNN(1, PC_START + 2 + Len(pad)) : k \in TimerValues, pad \in TickPads }

InitAdd == InitWith(AluRoms(4))
SpecAdd == InitAdd /\ [][Next]_vars

InitScreen == InitWith(ScreenRoms \cup BlockRoms)
SpecScreen == InitScreen /\ [][Next]_vars

InitKey == InitWith(KeyRoms)
SpecKey == InitKey /\ [][Next]_vars

InitAddImm == InitWith(AddImmRoms)
SpecAddImm == InitAddImm /\ [][Next]_vars

InitShl == InitWith(AluRoms(14))
SpecShl == InitShl /\ [][Next]_vars

InitPc == InitWith(WordRoms \cup SkipRoms)
SpecPc == InitPc /\ [][Next]_vars

InitMem == InitWith(MemRoms \cup EdgeJumpRoms)
SpecMem == InitMem /\ [][Next]_vars

InitTick == InitWith(TickRoms)
SpecTick == InitTick /\ [][Next]_vars

InitSub == InitWith(AluRoms(5))
SpecSub == InitSub /\ [][Next]_vars

\* ------------------------------------------------------------ properties
\* the instruction decode_op executed last, and the Cpu it found
LastOp == hist[Len(hist)]
\* decode_op has just returned from the arm of an instruction n0 _ _ n3
JustExecuted(n0, n3) ==
  /\ status = "running"
  /\ at = "tick"
  /\ Len(hist) > 0
  /\ LastOp.op[1] = n0
  /\ LastOp.op[4] = n3

Carry(a, b) == IF a + b > 255 THEN 1 ELSE 0

\* C1, as stated: for every x and y in 0..15, 8xy4 leaves register 15 equal
\* to 1 iff a + b > 255 (else 0) and register x equal to (a + b) mod 256,
\* a and b being registers x and y before the instruction.
C1_AddEveryRegister ==
  JustExecuted(8, 4) =>
    LET x == LastOp.op[2]
        a == LastOp.v[x]
        b == LastOp.v[LastOp.op[3]]
    IN  v[15] = Carry(a, b) /\ v[x] = (a + b) % 256

\* C1, amended: the same for x in 0..14; for x = 15 the sum is stored last
\* and register 15 ends as (a + b) mod 256, the carry being overwritten.
C1_Add ==
  JustExecuted(8, 4) =>
    LET x == LastOp.op[2]
        a == LastOp.v[x]
        b == LastOp.v[LastOp.op[3]]
    IN  /\ v[x] = (a + b) % 256
        /\ x # 15 => v[15] = Carry(a, b)
        /\ \A r \in 0..14 : r # x => v[r] = LastOp.v[r]

C1_Witness ==
  /\ JustExecuted(8, 4)
  /\ LastOp.op[2] # 15
  /\ LastOp.v[LastOp.op[2]] + LastOp.v[LastOp.op[3]] > 255
  /\ v[15] = 1

SignedLess(a, b) == IF AsI8(a) < AsI8(b) THEN 1 ELSE 0

\* C2: for all a = register x and b = register y, 8xy5 sets register 15 to
\* 1 iff a < b as signed 8-bit values (else 0) and stores (a - b) mod 256 in
\* register x, without aborting for any a, b.  (Stated for x in 0..14, where
\* the flag and the difference are different registers.)
C2_SubSigned ==
  /\ (at = "decode_op" /\ op[1] = 8 /\ op[4] = 5) => status = "running"
  /\ (JustExecuted(8, 5) /\ LastOp.op[2] # 15) =>
       LET x == LastOp.op[2]
           a == LastOp.v[x]
           b == LastOp.v[LastOp.op[3]]
       IN  v[15] = SignedLess(a, b) /\ v[x] = (a - b) % 256

InitStack == InitWith(StackRoms)
SpecStack == InitStack /\ [][Next]_vars

IsCall == op[1] = 2
IsReturn == op = <<0, 0, 14, 14>>
Decoding == status = "running" /\ at = "decode_op"

\* C4: 2nnn on a full stack and 00EE on an empty stack abort the run: the
\* program counter and the stack are left as they were (nnn or a stale slot
\* is never loaded), and no step follows an abort.
C4_StackFaultAborts ==
  [][ /\ (Decoding /\ ((IsCall /\ sp = MAX_STACK) \/ (IsReturn /\ sp = 0))) =>
           (status' = "panicked" /\ pc' = pc /\ sp' = sp /\ stack' = stack)
      /\ status = "panicked" => UNCHANGED vars ]_vars

C4_Witness ==
  /\ status = "panicked"
  /\ at = "decode_op"
  /\ IsCall
  /\ sp = MAX_STACK

\* C5: a call 2nnn followed immediately by the return 00EE at nnn leaves the
\* program counter where it was when the call executed (the address after
\* the call) and the stack depth unchanged.
C5_CallReturn ==
  (Len(hist) = 2 /\ at = "tick" /\ hist[1].op[1] = 2 /\ hist[2].op = <<0, 0, 14, 14>>) =>
    /\ pc = hist[1].pc
    /\ sp = hist[1].sp
    /\ hist[2].pc = n3u16(hist[1].op[2], hist[1].op[3], hist[1].op[4]) + OP_SIZE

\* a call at depth 1 or more that returned at once
C5_Witness ==
  /\ Len(hist) = 2
  /\ at = "tick"
  /\ hist[1].op[1] = 2
  /\ hist[2].op = <<0, 0, 14, 14>>
  /\ sp >= 1
  /\ pc = hist[1].pc

InitDraw == InitWith(DrawRoms)
SpecDraw == InitDraw /\ [][Next]_vars

\* the last two instructions executed are the same Dxyn, run with the same
\* index register, the same sprite bytes and the same position
SameDrawTwice ==
  /\ Len(hist) = 2
  /\ status = "running"
  /\ at = "tick"
  /\ hist[1].op[1] = 13
  /\ hist[2].op = hist[1].op
  /\ hist[2].i = hist[1].i
  /\ hist[2].sprite = hist[1].sprite
  /\ hist[2].v[hist[1].op[2]] = hist[1].v[hist[1].op[2]]
  /\ hist[2].v[hist[1].op[3]] = hist[1].v[hist[1].op[3]]

Pixels == 0..(VRAM_SIZE - 1)

\* C6: drawing the same sprite twice at the same position restores the
\* display buffer, and the second draw sets register 15 to 1 whenever the
\* first draw turned at least one pixel on.
C6_DrawTwice ==
  SameDrawTwice =>
    /\ vram = hist[1].vram
    /\ (\E p \in Pixels : hist[1].vram[p] = 0 /\ hist[2].vram[p] = 1) => v[15] = 1

\* the first draw both erased and lit pixels, and the second undid it
C6_Witness ==
  /\ SameDrawTwice
  /\ \E p \in Pixels : hist[1].vram[p] = 0 /\ hist[2].vram[p] = 1
  /\ \E p \in Pixels : hist[1].vram[p] = 1 /\ hist[2].vram[p] = 0
  /\ vram = hist[1].vram
  /\ v[15] = 1

\* bit w of a sprite row, the most significant bit being w = 0
SpriteBit(row, w) == (row \div (2 ^ (7 - w))) % 2

\* the pixel p after a sprite of rows `sprite` is drawn at (x, y) on `before`:
\* p is column (x + w) mod 64 of row (y + h) mod 32 for at most one (h, w)
Drawn(before, sprite, x, y, p) ==
  LET w == ((p % VRAM_WIDTH) - x) % VRAM_WIDTH
      h == ((p \div VRAM_WIDTH) - y) % VRAM_HEIGHT
  IN  IF w < 8 /\ h < Len(sprite)
        THEN (before[p] + SpriteBit(sprite[h + 1], w)) % 2
        ELSE before[p]

\* decode_op has just returned from a Dxyn
JustDrew ==
  /\ status = "running"
  /\ at = "tick"
  /\ Len(hist) > 0
  /\ LastOp.op[1] = 13

\* C7: Dxyn XORs bit (h, w) of the sprite into the pixel at column
\* (Vx + w) mod 64, row (Vy + h) mod 32, for every Vx, Vy and n; no bit is
\* clipped and no other pixel changes.
C7_DrawWraps ==
  JustDrew =>
    /\ Len(LastOp.sprite) = LastOp.op[4]
    /\ \A p \in Pixels :
         vram[p] = Drawn(LastOp.vram, LastOp.sprite,
                         LastOp.v[LastOp.op[2]], LastOp.v[LastOp.op[3]], p)

\* a 15-row sprite drawn at (60, 30) on an empty screen: its rows 2.. land
\* on rows 0.. and its columns 4..7 on columns 0..3
C7_Witness ==
  /\ JustDrew
  /\ LastOp.op[4] = 15
  /\ LastOp.v[LastOp.op[2]] = 60
  /\ LastOp.v[LastOp.op[3]] = 30
  /\ LastOp.vram[0] = 0
  /\ vram[0] = SpriteBit(SpriteData[3], 4)
  /\ vram[2] = 1
  /\ vram[63 + 12 * VRAM_WIDTH] = SpriteBit(SpriteData[15], 3)

InitJump == InitWith(JumpRoms)
SpecJump == InitJump /\ [][Next]_vars

\* C8, as stated: the program counter is even in every reachable state.
C8_PcEven == pc % 2 = 0

\* the program counter and every saved return address are even
EvenState ==
  /\ pc % 2 = 0
  /\ \A k \in 0..(MAX_STACK - 1) : k < sp => stack[k] % 2 = 0

\* decode_op is about to run a jump or call to an odd address
OddTransfer ==
  /\ Decoding
  /\ \/ op[1] \in {1, 2} /\ n3u16(op[2], op[3], op[4]) % 2 = 1
     \/ op[1] = 11 /\ (n3u16(op[2], op[3], op[4]) + v[0]) % 2 = 1

\* C8, amended: the program counter is even in every reachable state up to
\* the first 1nnn or 2nnn with an odd nnn, or Bnnn with nnn + V0 odd, that
\* executes: every other step (a fetch, a skip, a return, any other
\* instruction) takes an even program counter to an even one.
C8_PcEvenUnlessOddTransfer ==
  [][ (EvenState /\ ~OddTransfer) => EvenState' ]_vars

\* a Bnnn with an odd nnn and V0 = 1 has jumped to an even address
C8_Witness ==
  /\ EvenState
  /\ status = "running"
  /\ at = "tick"
  /\ LastOp.op[1] = 11
  /\ LastOp.v[0] = 1
  /\ pc = 516

InitWord == InitWith(WordRoms)
SpecWord == InitWord /\ [][Next]_vars

\* the instruction table: the patterns of the instructions that exist
InTable(o) ==
  \/ o = <<0, 0, 14, 0>>
  \/ o = <<0, 0, 14, 14>>
  \/ o[1] \in {1, 2, 3, 4, 6, 7, 10, 11, 12, 13}
  \/ o[1] \in {5, 9} /\ o[4] = 0
  \/ o[1] = 8 /\ o[4] \in {0, 1, 2, 3, 4, 5, 6, 14}
  \/ o[1] = 14 /\ <<o[3], o[4]>> \in {<<9, 14>>, <<10, 1>>}
  \/ o[1] = 15 /\ <<o[3], o[4]>> \in
       {<<0, 7>>, <<1, 5>>, <<1, 8>>, <<1, 14>>, <<2, 9>>, <<3, 3>>, <<5, 5>>, <<6, 5>>}

\* C9: every instruction word outside the instruction table, 0nnn other than
\* 00E0 and 00EE included, aborts the run when decoded: the Cpu is left
\* untouched and no cycle follows.
C9_InvalidAborts ==
  [][ /\ (Decoding /\ ~InTable(op)) => (status' = "panicked" /\ UNCHANGED cpu)
      /\ status = "panicked" => UNCHANGED vars ]_vars

\* 0xFFFF was decoded and the run aborted
C9_Witness ==
  /\ status = "panicked"
  /\ at = "decode_op"
  /\ op = <<15, 15, 15, 15>>
  /\ pc = PC_START + OP_SIZE
  /\ timer = 0

InitTimer == InitWith(TimerRoms)
SpecTimer == InitTimer /\ [][Next]_vars

NonIncreasing(t, nt) == nt <= t /\ nt >= 0
DecrementedOrZero(t, nt) == nt = IF t > 0 THEN t - 1 ELSE 0

\* C10: in every step that is not the execution of Fx15 (Fx18), delay_timer
\* (sound_timer) does not increase and does not go below zero; a tick takes
\* a nonzero timer down by exactly 1 and leaves a zero timer at zero.
C10_TimersCountDown ==
  [][ /\ ~(Decoding /\ op[1] = 15 /\ op[3] = 1 /\ op[4] = 5) =>
           NonIncreasing(delay_timer, delay_timer')
      /\ ~(Decoding /\ op[1] = 15 /\ op[3] = 1 /\ op[4] = 8) =>
           NonIncreasing(sound_timer, sound_timer')
      /\ (status = "running" /\ at = "tick" /\ timer % TICK_PERIOD = 0) =>
           /\ DecrementedOrZero(delay_timer, delay_timer')
           /\ DecrementedOrZero(sound_timer, sound_timer') ]_vars

\* after the third tick: a delay timer set to 1 has stayed at zero through a
\* tick, a sound timer set to 255 has gone down twice
C10_Witness ==
  /\ timer = 21
  /\ ram[PC_START + 1] = 1
  /\ delay_timer = 0
  /\ sound_timer = 253

\* --------------------------------------------------------------------- C11
\* C11: update_timers is called in one cycle out of every TICK_PERIOD and in
\* no other: every window of TICK_PERIOD consecutive completed cycles holds
\* exactly one cycle that called it, and a cycle that called it is followed
\* TICK_PERIOD cycles later by the next one that does.
C11_OneTickPerWindow ==
  /\ \A c \in 0..(timer - TICK_PERIOD) :
       Cardinality({ k \in ticked : c <= k /\ k < c + TICK_PERIOD }) = 1
  /\ \A k \in ticked : k + TICK_PERIOD < timer => (k + TICK_PERIOD) \in ticked

\* three windows have gone by, each with its tick
C11_Witness == timer >= 3 * TICK_PERIOD /\ Cardinality(ticked) = 3

\* --------------------------------------------------------------------- C12
\* C12: in every reachable state every cell of the display buffer is 0 or 1,
\* whatever Dxyn and 00E0 instructions have run, with whatever sprite bytes
\* and coordinates.
C12_PixelsAreBits == \A p \in 0..(VRAM_SIZE - 1) : vram[p] \in {0, 1}

\* a sprite has just been drawn over set pixels: some were erased (the
\* collision flag) and some are set
C12_Witness ==
  /\ JustExecuted(13, LastOp.op[4])
  /\ v[15] = 1
  /\ \E p \in 0..(VRAM_SIZE - 1) : LastOp.vram[p] = 1 /\ vram[p] = 0
  /\ \E p \in 0..(VRAM_SIZE - 1) : vram[p] = 1

\* --------------------------------------------------------------------- C13
IsEx9E == op[1] = 14 /\ op[3] = 9 /\ op[4] = 14
IsExA1 == op[1] = 14 /\ op[3] = 10 /\ op[4] = 1

\* C13: the key-state skips resolve as "key not pressed", whatever register
\* they name and whatever it holds: executing Ex9E completes and leaves the
\* program counter at the next instruction, executing ExA1 completes and
\* moves it past exactly one instruction; neither changes anything else.
C13_KeysNotPressed ==
  [][ /\ (Decoding /\ IsEx9E) =>
           /\ status' = "running" /\ at' = "tick"
           /\ pc' = pc
           /\ UNCHANGED <<i, v, delay_timer, sound_timer, stack, sp, ram, vram>>
      /\ (Decoding /\ IsExA1) =>
           /\ status' = "running" /\ at' = "tick"
           /\ pc' = pc + OP_SIZE
           /\ UNCHANGED <<i, v, delay_timer, sound_timer, stack, sp, ram, vram>> ]_vars

\* EFA1 has skipped with register 15 holding 255
C13_Witness ==
  /\ JustExecuted(14, 1)
  /\ LastOp.op = <<14, 15, 10, 1>>
  /\ LastOp.v[15] = 255
  /\ pc = LastOp.pc + OP_SIZE

\* --------------------------------------------------------------------- C14
\* C14: 7xnn, for every register x and all values of register x and nn,
\* does not abort and stores (register x + nn) mod 256 in register x; no
\* other register changes, so register 15 is untouched when x is not 15.
C14_AddImmediateWraps ==
  [][ (Decoding /\ op[1] = 7) =>
        /\ status' = "running"
        /\ v' = [v EXCEPT ![op[2]] = (v[op[2]] + n2u8(op[3], op[4])) % U8] ]_vars

\* --------------------------------------------------------------------- C15
\* C15: 8xyE on a register x other than 15 holding v does not abort, leaves
\* register 15 equal to the byte v AND 0x80 (128 when v >= 128, else 0: not
\* normalised to 1) and register x equal to (2 * v) mod 256.
C15_ShiftLeftRawFlag ==
  [][ (Decoding /\ op[1] = 8 /\ op[4] = 14 /\ op[2] # 15) =>
        /\ status' = "running"
        /\ v'[15] = (IF v[op[2]] >= 128 THEN 128 ELSE 0)
        /\ v'[op[2]] = (2 * v[op[2]]) % U8 ]_vars

\* 0xFF shifted: register 15 holds 128 and the register 0xFE
C15_Witness ==
  /\ JustExecuted(8, 14)
  /\ LastOp.op[2] # 15
  /\ LastOp.v[LastOp.op[2]] = 255
  /\ v[15] = 128
  /\ v[LastOp.op[2]] = 254

\* --------------------------------------------------------------------- C16
\* the display buffer with the rows of a sprite of 8-pixel rows at the origin
Block(rows) ==
  [p \in 0..(VRAM_SIZE - 1) |->
     IF p \div VRAM_WIDTH < Len(rows) /\ p % VRAM_WIDTH < 8
       THEN rows[(p \div VRAM_WIDTH) + 1][(p % VRAM_WIDTH) + 1]
       ELSE 0]

\* the image has been loaded into a fresh Cpu and two cycles have completed
RanTwoOf(rom) ==
  /\ status = "running"
  /\ at = "fetch_op"
  /\ timer = 2
  /\ ram = load_rom(rom)

\* C16 as stated: after the two instructions of the image A2 00 D0 05 the
\* display buffer holds a solid block of set pixels in columns 0..7 of rows
\* 0..4, every other pixel is 0, and register 15 is 0.
C16_SolidBlock ==
  RanTwoOf(BlockOwnBytes) =>
    /\ vram = Block(<< <<1, 1, 1, 1, 1, 1, 1, 1>>, <<1, 1, 1, 1, 1, 1, 1, 1>>,
                       <<1, 1, 1, 1, 1, 1, 1, 1>>, <<1, 1, 1, 1, 1, 1, 1, 1>>,
                       <<1, 1, 1, 1, 1, 1, 1, 1>> >>)
    /\ v[15] = 0

\* C16, amended: after the two instructions of the image A2 00 D0 05 the
\* sprite drawn at the origin is the image's own bytes A2 00 D0 05 followed
\* by the zero byte after them, most significant bit leftmost; after the two
\* instructions of the image A2 04 D0 05 FF FF FF FF FF it is the solid
\* block.  In both every other pixel is 0 and register 15 is 0.
C16_BlockOfSpriteBytes ==
  /\ RanTwoOf(BlockOwnBytes) =>
       /\ vram = Block(<< <<1, 0, 1, 0, 0, 0, 1, 0>>, <<0, 0, 0, 0, 0, 0, 0, 0>>,
                          <<1, 1, 0, 1, 0, 0, 0, 0>>, <<0, 0, 0, 0, 0, 1, 0, 1>>,
                          <<0, 0, 0, 0, 0, 0, 0, 0>> >>)
       /\ v[15] = 0
  /\ RanTwoOf(BlockSolid) =>
       /\ vram = Block(<< <<1, 1, 1, 1, 1, 1, 1, 1>>, <<1, 1, 1, 1, 1, 1, 1, 1>>,
                          <<1, 1, 1, 1, 1, 1, 1, 1>>, <<1, 1, 1, 1, 1, 1, 1, 1>>,
                          <<1, 1, 1, 1, 1, 1, 1, 1>> >>)
       /\ v[15] = 0

\* the image A2 00 D0 05 has run its two instructions and drawn
C16_Witness ==
  /\ RanTwoOf(BlockOwnBytes)
  /\ i = PC_START
  /\ LastOp.op = <<13, 0, 0, 5>>
  /\ vram[0] = 1

\* --------------------------------------------------------------------- C17
\* 00EE, 1nnn, 2nnn, Bnnn
IsTransfer == op = <<0, 0, 14, 14>> \/ op[1] \in {1, 2, 11}
IsSkip == op[1] \in {3, 4} \/ (op[1] \in {5, 9} /\ op[4] = 0) \/ IsEx9E \/ IsExA1
\* the condition of the skip instruction in op; a key is never pressed
SkipCondition ==
  CASE op[1] = 3 -> v[op[2]] = n2u8(op[3], op[4])
    [] op[1] = 4 -> v[op[2]] # n2u8(op[3], op[4])
    [] op[1] = 5 -> v[op[2]] = v[op[3]]
    [] op[1] = 9 -> v[op[2]] # v[op[3]]
    [] IsEx9E -> FALSE
    [] IsExA1 -> TRUE
    [] OTHER -> FALSE

\* C17: in a cycle that completes, the fetch advances the program counter by
\* 2; executing an instruction other than 00EE, 1nnn, 2nnn, Bnnn then leaves
\* it alone, except that a skip instruction whose condition holds advances
\* it by 2 more; the rest of the cycle leaves it alone.  So the cycle of a
\* skip ends at plus 4 or plus 2, and of any other such instruction at plus 2.
C17_PcAdvance ==
  [][ /\ (status = "running" /\ at = "fetch_op" /\ status' = "running") =>
           pc' = pc + OP_SIZE
      /\ (Decoding /\ status' = "running" /\ ~IsTransfer) =>
           pc' = pc + (IF IsSkip /\ SkipCondition THEN OP_SIZE ELSE 0)
      /\ (status = "running" /\ at = "tick") => pc' = pc ]_vars

\* the third instruction of an image was 9xy0 on different registers: its
\* cycle started at 0x204 and ended at 0x208
C17_Witness ==
  /\ status = "running"
  /\ at = "fetch_op"
  /\ timer = 3
  /\ LastOp.op[1] = 9
  /\ LastOp.v[LastOp.op[2]] # LastOp.v[LastOp.op[3]]
  /\ pc = PC_START + 4 + 2 * OP_SIZE

\* --------------------------------------------------------------------- C18
\* C18: an access outside memory aborts the run: a fetch with the program
\* counter at 4095 or above, a Dxyn with index + n > 4096, an Fx33 with
\* index + 2 > 4095, an Fx55 or Fx65 with index + x > 4095.  After the
\* abort nothing more happens.
C18_OutOfRangeAborts ==
  [][ /\ (status = "running" /\ at = "fetch_op" /\ pc >= RAM_SIZE - 1) =>
           status' = "panicked"
      /\ (Decoding /\ op[1] = 13 /\ i + op[4] > RAM_SIZE) =>
           status' = "panicked"
      /\ (Decoding /\ op[1] = 15 /\ op[3] = 3 /\ op[4] = 3 /\ i + 2 > RAM_SIZE - 1) =>
           status' = "panicked"
      /\ (Decoding /\ op[1] = 15 /\ op[3] \in {5, 6} /\ op[4] = 5 /\ i + op[2] > RAM_SIZE - 1) =>
           status' = "panicked"
      /\ status # "panicked" ]_vars

\* F365 with the index at 4093 has aborted the run
C18_Witness ==
  /\ status = "panicked"
  /\ at = "decode_op"
  /\ op = <<15, 3, 6, 5>>
  /\ i = RAM_SIZE - 3

\* --------------------------------------------------------------------- C19
\* a cycle that called update_timers has just ended
EndOfTickCycle ==
  /\ status = "running"
  /\ at = "fetch_op"
  /\ (timer - 1) \in ticked
  /\ Len(hist) > 0

\* C19: update_timers is called in the first cycle and every TICK_PERIOD-th
\* after it, and within its cycle after the instruction: a cycle with a
\* tick whose instruction was Fx15 with register x = k > 0 ends with
\* delay_timer = k - 1, and one whose instruction was Fx07 ends with register
\* x holding the delay timer as it was before the tick decremented it.
C19_TickAfterInstruction ==
  /\ ticked = { c \in 0..(timer - 1) : c % TICK_PERIOD = 0 }
  /\ (/\ EndOfTickCycle
      /\ LastOp.op[1] = 15 /\ LastOp.op[3] = 1 /\ LastOp.op[4] = 5
      /\ LastOp.v[LastOp.op[2]] > 0)
       => delay_timer = LastOp.v[LastOp.op[2]] - 1
  /\ (EndOfTickCycle /\ LastOp.op[1] = 15 /\ LastOp.op[3] = 0 /\ LastOp.op[4] = 7)
       => /\ v[LastOp.op[2]] = LastOp.delay_timer
          /\ delay_timer = (IF LastOp.delay_timer > 0 THEN LastOp.delay_timer - 1 ELSE 0)

\* the eleventh cycle executed F015 with V0 = 255, and ended with the delay
\* timer at 254
C19_Witness ==
  /\ EndOfTickCycle
  /\ timer = TICK_PERIOD + 1
  /\ LastOp.op = <<15, 0, 1, 5>>
  /\ LastOp.v[0] = 255
  /\ delay_timer = 254

\* --------------------------------------------------------------------- C20
\* C20: a Dxyn naming register 15 as x or y draws the sprite at the value
\* register 15 held before the instruction, and leaves in register 15 the
\* collision flag alone: 1 if the draw turned a set pixel off, else 0.
C20_CoordinatesReadFirst ==
  (JustDrew /\ (LastOp.op[2] = 15 \/ LastOp.op[3] = 15)) =>
    /\ \A p \in Pixels :
         vram[p] = Drawn(LastOp.vram, LastOp.sprite,
                         LastOp.v[LastOp.op[2]], LastOp.v[LastOp.op[3]], p)
    /\ v[15] = (IF \E p \in Pixels : LastOp.vram[p] = 1 /\ vram[p] = 0 THEN 1 ELSE 0)

\* the same DFyn twice in a row: the first found register 15 at 0 and left
\* it at 1, so the second drew one column to the right and did not undo it
C20_Witness ==
  /\ JustDrew
  /\ Len(hist) = 2
  /\ hist[1].op = hist[2].op
  /\ hist[2].op[2] = 15
  /\ hist[1].v[15] = 0
  /\ hist[2].v[15] = 1
  /\ vram # hist[1].vram

====
